---------------------------- MODULE Spec2Model ----------------------------
(***************************************************************************)
(* clone-behavior: the speed tiers, the three clone traits, the            *)
(* NonRecursive marker with its blanket impls, and the impls for the       *)
(* primitive and composite types.                                          *)
(*                                                                         *)
(* SpecTypes models trait resolution.  A behaviour fixes one type (focus)  *)
(* and one clone trait (sem) and builds the table of impls that hold for   *)
(* the type and the types it is built from, one impl rule per action.      *)
(* SpecRun models the clone operations at run time.  A behaviour builds a  *)
(* value, makes one clone call on it, and then mutates and drops the       *)
(* source and the clone.                                                   *)
(* The crate is modelled as built with the `std` and `alloc` features and  *)
(* with every atomic width available.                                      *)
(***************************************************************************)
EXTENDS Integers, Sequences, FiniteSets, TLC

(***************************************************************************)
(* Bounds of the model.                                                    *)
(***************************************************************************)
\* nesting depth of the element types placed under the outermost constructor
MaxDepth == 2
\* largest tuple / fn arity explored (the crate's own maximum is VarargsMax)
MaxArity == 2
\* constructors wrapped around the leaf value that is cloned
MaxWrap == 2
\* steps taken on the source and the clone after the call, and updates each
\* concurrent writer makes
MaxOps == 2
\* threads updating a mutex while it is cloned
MaxWriters == 2

(***************************************************************************)
(* speed.rs: the four tiers, fastest first.                                *)
(***************************************************************************)
Speed == <<"NearInstant", "ConstantTime", "LogTime", "AnySpeed">>

Tiers == {Speed[i] : i \in 1..Len(Speed)}

Rank(t) ==
    CASE t = "NearInstant" -> 1
      [] t = "ConstantTime" -> 2
      [] t = "LogTime" -> 3
      [] t = "AnySpeed" -> 4

Faster(t) == Speed[Rank(t) - 1]

ConstantOrSlowerTiers == {"ConstantTime", "LogTime", "AnySpeed"}

(***************************************************************************)
(* The three clone traits.                                                 *)
(***************************************************************************)
IndependentClone == "IndependentClone"

MirroredClone == "MirroredClone"

MixedClone == "MixedClone"

Traits == {IndependentClone, MirroredClone, MixedClone}

(***************************************************************************)
(* Types are terms [head, args].  A generic parameter that no impl         *)
(* constrains (the T of *const T, PhantomData<T>, AtomicPtr<T>, ...) is    *)
(* left out of args.  Pin<Rc<T>>, Box<[T]> and the like are single heads,  *)
(* as the crate has no impl for Pin<P> or Box<T> in general.               *)
(***************************************************************************)
Mk(h, a) == [head |-> h, args |-> a]

Leaf(h) == Mk(h, <<>>)

\* a generic parameter with no bounds: implements nothing
Opaque == Leaf("T")

IntNames == {"i8", "i16", "i32", "i64", "i128", "isize",
             "u8", "u16", "u32", "u64", "u128", "usize"}

AtomicNames == {"AtomicBool", "AtomicI8", "AtomicU8", "AtomicI16", "AtomicU16",
                "AtomicI32", "AtomicU32", "AtomicI64", "AtomicU64",
                "AtomicIsize", "AtomicUsize"}

IsInt(ty) == ty.head \in IntNames /\ ty.args = <<>>

IsNonZero(ty) == ty.head = "NonZero" /\ Len(ty.args) = 1 /\ IsInt(ty.args[1])

\* call_varargs_macro!(m) invokes m with 1 to VarargsMax type parameters
VarargsMax == 12

VarargsArities == 1..VarargsMax

IsFn(ty) == ty.head = "fn" /\ (Len(ty.args) - 1) \in ({0} \cup VarargsArities)

IsTuple(ty) == ty.head = "Tuple" /\ Len(ty.args) \in VarargsArities


(***************************************************************************)
(* Types of a downstream crate.  NonRecursive and the three clone traits   *)
(* are public, so a downstream type may carry the marker and give one      *)
(* manual impl at its fastest tier; the blanket impls are generic over     *)
(* such types too.  DownstreamTier gives the tier of the manual impl.      *)
(***************************************************************************)
DownstreamMarked == {"NonRecNearInstant", "NonRecConstantTime", "NonRecLogTime",
                     "NonRecAnySpeed"}

DownstreamUnmarked == {"PlainNearInstant"}

DownstreamHeads == DownstreamMarked \cup DownstreamUnmarked

DownstreamTier(h) ==
    CASE h \in {"NonRecNearInstant", "PlainNearInstant"} -> "NearInstant"
      [] h = "NonRecConstantTime" -> "ConstantTime"
      [] h = "NonRecLogTime" -> "LogTime"
      [] h = "NonRecAnySpeed" -> "AnySpeed"

(***************************************************************************)
(* blanket_impls.rs: the impls of the NonRecursive marker.                 *)
(***************************************************************************)
NonRecursive_int_impls(ty) == IsInt(ty) \/ IsNonZero(ty)

\* the marker list with Rc<T> added, as the trait's documentation has it
NonRecursiveHeads_with_rc ==
    {"f32", "f64", "bool", "char", "unit", "ref", "const_ptr", "mut_ptr",
     "Layout", "TypeId", "cmp_Ordering", "Infallible", "Empty", "PhantomData",
     "PhantomPinned", "Discriminant", "RangeFull", "NonNull", "atomic_Ordering",
     "Duration",
     "String",
     "Path", "PathBuf", "Instant", "ThreadId",
     "Rc"}

NonRecursiveHeads ==
    {"f32", "f64", "bool", "char", "unit", "ref", "const_ptr", "mut_ptr",
     "Layout", "TypeId", "cmp_Ordering", "Infallible", "Empty", "PhantomData",
     "PhantomPinned", "Discriminant", "RangeFull", "NonNull", "atomic_Ordering",
     "Duration",
     "String",
     "Path", "PathBuf", "Instant", "ThreadId"}

NonRecursive_non_recursive(ty) == ty.head \in NonRecursiveHeads

NonRecursive_atomic(ty) == ty.head \in AtomicNames \cup {"AtomicPtr"}

NonRecursive_function(ty) == IsFn(ty)

NonRecursive_downstream(ty) == ty.head \in DownstreamMarked

\* the type has an impl of NonRecursive
NonRecursive(ty) ==
    \/ NonRecursive_int_impls(ty)
    \/ NonRecursive_non_recursive(ty)
    \/ NonRecursive_atomic(ty)
    \/ NonRecursive_function(ty)
    \/ NonRecursive_downstream(ty)

(***************************************************************************)
(* The std traits that appear as extra where-bounds (T: Copy for Cell,     *)
(* T: Ord for the BTree collections and BinaryHeap, T: Eq + Hash for the   *)
(* hash collections): which of the modelled types implement them.          *)
(***************************************************************************)
RECURSIVE IsCopy(_)
IsCopy(ty) ==
    \/ IsInt(ty) \/ IsNonZero(ty) \/ IsFn(ty)
    \/ ty.head \in {"f32", "f64", "bool", "char", "unit", "ref", "const_ptr",
                    "mut_ptr", "NonNull", "Layout", "TypeId", "cmp_Ordering",
                    "Infallible", "PhantomData", "PhantomPinned", "Discriminant",
                    "RangeFull", "atomic_Ordering", "Duration", "Instant",
                    "ThreadId"}
    \/ /\ ty.head \in {"Option", "Result", "Tuple", "Array", "ManuallyDrop"}
       /\ \A i \in DOMAIN ty.args : IsCopy(ty.args[i])

RECURSIVE IsOrd(_)
IsOrd(ty) ==
    \/ IsInt(ty) \/ IsNonZero(ty) \/ IsFn(ty)
    \/ ty.head \in {"bool", "char", "unit", "const_ptr", "mut_ptr", "NonNull",
                    "TypeId", "cmp_Ordering", "Infallible", "PhantomData",
                    "PhantomPinned", "Duration", "Instant", "String", "Path",
                    "PathBuf", "BoxStr", "PinBoxStr"}
    \/ /\ ty.head \in {"Option", "Result", "Tuple", "Array", "ManuallyDrop",
                       "Cell", "RefCell", "Rc", "PinRc", "Arc", "PinArc",
                       "BoxSlice", "PinBoxSlice", "Vec", "VecDeque", "LinkedList",
                       "BTreeSet", "BTreeMap"}
       /\ \A i \in DOMAIN ty.args : IsOrd(ty.args[i])

RECURSIVE IsEqHash(_)
IsEqHash(ty) ==
    \/ IsInt(ty) \/ IsNonZero(ty) \/ IsFn(ty)
    \/ ty.head \in {"bool", "char", "unit", "const_ptr", "mut_ptr", "NonNull",
                    "Layout", "TypeId", "cmp_Ordering", "Infallible",
                    "PhantomData", "PhantomPinned", "Discriminant", "RangeFull",
                    "atomic_Ordering", "Duration", "Instant", "ThreadId",
                    "String", "Path", "PathBuf", "BoxStr", "PinBoxStr"}
    \/ /\ ty.head \in {"Option", "Result", "Tuple", "Array", "ManuallyDrop",
                       "Rc", "PinRc", "Arc", "PinArc", "BoxSlice", "PinBoxSlice",
                       "Vec", "VecDeque", "LinkedList", "BTreeSet", "BTreeMap"}
       /\ \A i \in DOMAIN ty.args : IsEqHash(ty.args[i])

(***************************************************************************)
(* independent.rs: the impl headers (Self type, tier, extra where-bounds). *)
(***************************************************************************)
\* impl_copy! applied to the integers only
impl_copy_ints_only(ty, tier) == tier = "NearInstant" /\ IsInt(ty)

impl_copy(ty, tier) ==
    tier = "NearInstant" /\ (IsInt(ty) \/ IsNonZero(ty))

IndependentNearInstantHeads ==
    {"f32", "f64", "bool", "char", "unit", "Layout", "TypeId", "cmp_Ordering",
     "Infallible", "Empty", "PhantomData", "PhantomPinned", "Discriminant",
     "RangeFull", "atomic_Ordering", "Duration",
     "Instant", "ThreadId"}

independent_non_recursive_near_instant(ty, tier) ==
    tier = "NearInstant" /\ ty.head \in IndependentNearInstantHeads

independent_atomic(ty, tier) ==
    tier = "NearInstant" /\ ty.head \in AtomicNames

independent_function(ty, tier) ==
    tier = "NearInstant" /\ IsFn(ty)

\* tuple_constant, tuple_log, tuple_any
independent_make_tuple_macro(ty, tier) ==
    tier \in ConstantOrSlowerTiers /\ IsTuple(ty)

ConstantOrSlowerHeads ==
    {"Array", "Option", "Result", "ManuallyDrop", "Cell", "RefCell",
     "Rc", "PinRc", "RcWeak", "Arc", "PinArc", "ArcWeak",
     "RwLock", "Mutex"}

\* the macro instantiated for LogTime and AnySpeed only
constant_or_slower_without_constant(ty, tier) ==
    /\ tier \in {"LogTime", "AnySpeed"}
    /\ ty.head \in ConstantOrSlowerHeads
    /\ ty.head = "Cell" => IsCopy(ty.args[1])

constant_or_slower(ty, tier) ==
    /\ tier \in ConstantOrSlowerTiers
    /\ ty.head \in ConstantOrSlowerHeads
    /\ ty.head = "Cell" => IsCopy(ty.args[1])

MapAndCollectHeads ==
    {"BoxSlice", "Vec", "VecDeque", "LinkedList", "BTreeSet", "BinaryHeap"}

map_and_collect(ty, tier) ==
    /\ tier = "AnySpeed"
    /\ ty.head \in MapAndCollectHeads
    /\ ty.head \in {"BTreeSet", "BinaryHeap"} => IsOrd(ty.args[1])

independent_pin_box_slice(ty, tier) ==
    tier = "AnySpeed" /\ ty.head = "PinBoxSlice"

independent_box_str(ty, tier) ==
    tier = "AnySpeed" /\ ty.head \in {"BoxStr", "PinBoxStr"}

independent_btree_map(ty, tier) ==
    tier = "AnySpeed" /\ ty.head = "BTreeMap" /\ IsOrd(ty.args[1])

independent_hash_set(ty, tier) ==
    tier = "AnySpeed" /\ ty.head = "HashSet" /\ IsEqHash(ty.args[1])

independent_hash_map(ty, tier) ==
    tier = "AnySpeed" /\ ty.head = "HashMap" /\ IsEqHash(ty.args[1])

(***************************************************************************)
(* mirrored.rs: the impl headers.                                          *)
(***************************************************************************)
MirroredNearInstantHeads ==
    {"unit", "Infallible", "Empty", "PhantomData", "PhantomPinned", "RangeFull"}

mirrored_non_recursive_near_instant(ty, tier) ==
    tier = "NearInstant" /\ ty.head \in MirroredNearInstantHeads

\* impl<S: Speed, T: ?Sized> MirroredClone<S>: every tier, no bound on T
refcounted(ty, tier) ==
    tier \in Tiers /\ ty.head \in {"Rc", "RcWeak", "Arc", "ArcWeak"}

mirrored_function(ty, tier) ==
    tier = "NearInstant" /\ IsFn(ty)

pinned_refcounted(ty, tier) ==
    tier \in Tiers /\ ty.head \in {"PinRc", "PinRcWeak", "PinArc", "PinArcWeak"}

mirrored_make_tuple_macro(ty, tier) ==
    tier \in ConstantOrSlowerTiers /\ IsTuple(ty)

mirrored_option(ty, tier) ==
    tier \in Tiers /\ ty.head = "Option"

mirrored_result(ty, tier) ==
    tier \in Tiers /\ ty.head = "Result"

(***************************************************************************)
(* mixed.rs: the impl headers.                                             *)
(***************************************************************************)
mixed_non_recursive_near_instant(ty, tier) ==
    tier = "NearInstant" /\ ty.head \in {"ref", "const_ptr", "mut_ptr", "NonNull"}

mixed_atomic_ptr(ty, tier) ==
    tier = "NearInstant" /\ ty.head = "AtomicPtr"

mixed_cow(ty, tier) ==
    tier \in Tiers /\ ty.head = "Cow"

(***************************************************************************)
(* blanket_impls.rs: the three blanket impls of each clone trait, for      *)
(* every T (the NonRecursive bound is in blanket_bounds below).            *)
(***************************************************************************)
\* the blanket impls without the AnySpeed one
blanket_impls_without_any_speed(ty, tier) == tier \in {"ConstantTime", "LogTime"}

blanket_impls(ty, tier) == tier \in ConstantOrSlowerTiers

\* a downstream type's one manual impl
downstream_impl(ty, tier) ==
    ty.head \in DownstreamHeads /\ tier = DownstreamTier(ty.head)


(***************************************************************************)
(* The trait bounds of each impl on the clone trait itself, as the set of  *)
(* (type, tier) pairs that must implement the same trait.                  *)
(***************************************************************************)
Bound(ty, tier) == [ty |-> ty, tier |-> tier]

\* the type parameters bounded at AnySpeed whatever the tier of the impl
independent_bounds_any_speed(rule, ty, tier) ==
    IF rule \in {"independent_make_tuple_macro", "constant_or_slower",
                 "map_and_collect", "independent_pin_box_slice",
                 "independent_btree_map", "independent_hash_set",
                 "independent_hash_map"}
    THEN {Bound(ty.args[i], "AnySpeed") : i \in DOMAIN ty.args}
    ELSE {}

\* $($special_bounds: IndependentClone<S>,)* : every type parameter, at the
\* tier of the impl
independent_bounds(rule, ty, tier) ==
    IF rule \in {"independent_make_tuple_macro", "constant_or_slower",
                 "map_and_collect", "independent_pin_box_slice",
                 "independent_btree_map", "independent_hash_set",
                 "independent_hash_map"}
    THEN {Bound(ty.args[i], tier) : i \in DOMAIN ty.args}
    ELSE {}

mirrored_bounds(rule, ty, tier) ==
    IF rule \in {"mirrored_make_tuple_macro", "mirrored_option", "mirrored_result"}
    THEN {Bound(ty.args[i], tier) : i \in DOMAIN ty.args}
    ELSE {}

\* T: NonRecursive + $clone_tr<the next faster tier>
blanket_bounds(ty, tier) == {Bound(ty, Faster(tier))}

IndependentRules ==
    {"impl_copy", "independent_non_recursive_near_instant", "independent_atomic",
     "independent_function", "independent_make_tuple_macro", "constant_or_slower",
     "map_and_collect", "independent_pin_box_slice", "independent_box_str",
     "independent_btree_map", "independent_hash_set", "independent_hash_map"}

MirroredRules ==
    {"mirrored_non_recursive_near_instant", "refcounted", "mirrored_function",
     "pinned_refcounted", "mirrored_make_tuple_macro", "mirrored_option",
     "mirrored_result"}

MixedRules == {"mixed_non_recursive_near_instant", "mixed_atomic_ptr", "mixed_cow"}

\* the impls of trait tr: those written for it, the blanket impls (the macro
\* is instantiated once per trait) and a downstream type's manual impl
RulesOf(tr) ==
    (CASE tr = IndependentClone -> IndependentRules
       [] tr = MirroredClone -> MirroredRules
       [] tr = MixedClone -> MixedRules)
    \cup {"blanket_impls", "downstream_impl"}

Header(rule, ty, tier) ==
    CASE rule = "impl_copy" -> impl_copy(ty, tier)
      [] rule = "independent_non_recursive_near_instant" ->
            independent_non_recursive_near_instant(ty, tier)
      [] rule = "independent_atomic" -> independent_atomic(ty, tier)
      [] rule = "independent_function" -> independent_function(ty, tier)
      [] rule = "independent_make_tuple_macro" -> independent_make_tuple_macro(ty, tier)
      [] rule = "constant_or_slower" -> constant_or_slower(ty, tier)
      [] rule = "map_and_collect" -> map_and_collect(ty, tier)
      [] rule = "independent_pin_box_slice" -> independent_pin_box_slice(ty, tier)
      [] rule = "independent_box_str" -> independent_box_str(ty, tier)
      [] rule = "independent_btree_map" -> independent_btree_map(ty, tier)
      [] rule = "independent_hash_set" -> independent_hash_set(ty, tier)
      [] rule = "independent_hash_map" -> independent_hash_map(ty, tier)
      [] rule = "mirrored_non_recursive_near_instant" ->
            mirrored_non_recursive_near_instant(ty, tier)
      [] rule = "refcounted" -> refcounted(ty, tier)
      [] rule = "mirrored_function" -> mirrored_function(ty, tier)
      [] rule = "pinned_refcounted" -> pinned_refcounted(ty, tier)
      [] rule = "mirrored_make_tuple_macro" -> mirrored_make_tuple_macro(ty, tier)
      [] rule = "mirrored_option" -> mirrored_option(ty, tier)
      [] rule = "mirrored_result" -> mirrored_result(ty, tier)
      [] rule = "mixed_non_recursive_near_instant" ->
            mixed_non_recursive_near_instant(ty, tier)
      [] rule = "mixed_atomic_ptr" -> mixed_atomic_ptr(ty, tier)
      [] rule = "mixed_cow" -> mixed_cow(ty, tier)
      [] rule = "blanket_impls" -> blanket_impls(ty, tier)
      [] rule = "downstream_impl" -> downstream_impl(ty, tier)

Bounds(rule, ty, tier) ==
    CASE rule \in IndependentRules -> independent_bounds(rule, ty, tier)
      [] rule \in MirroredRules -> mirrored_bounds(rule, ty, tier)
      [] rule = "blanket_impls" -> blanket_bounds(ty, tier)
      [] OTHER -> {}

\* the impl is bounded by T: NonRecursive
\* the blanket impls without their T: NonRecursive bound
NeedsMarker_dropped(rule) == FALSE

NeedsMarker(rule) == rule = "blanket_impls"

(***************************************************************************)
(* The types explored.  LeafTypes has every type the crate names that      *)
(* takes no clone-bounded parameter; the composite types apply every       *)
(* constructor to element types nested up to MaxDepth - 1 deep.            *)
(***************************************************************************)
ElemLeaves == {Leaf("u8"), Leaf("unit"), Leaf("BoxStr")}

InnerHeads == {"Option", "Rc"}

RECURSIVE Inner(_)
Inner(d) ==
    IF d <= 0 THEN ElemLeaves
    ELSE ElemLeaves \cup {Mk(h, <<a>>) : h \in InnerHeads, a \in Inner(d - 1)}

UnaryHeads ==
    (ConstantOrSlowerHeads \ {"Result"}) \cup MapAndCollectHeads
    \cup {"PinBoxSlice", "HashSet", "PinRcWeak", "PinArcWeak"}

BinaryHeads == {"Result", "BTreeMap", "HashMap"}

LeafHeads ==
    IntNames \cup AtomicNames \cup NonRecursiveHeads \cup DownstreamHeads
    \cup {"AtomicPtr", "BoxStr", "PinBoxStr", "Cow", "T"}

FnTypes == {Mk("fn", [i \in 1..(n + 1) |-> Opaque]) : n \in 0..MaxArity}

LeafTypes ==
    {Leaf(h) : h \in LeafHeads}
    \cup {Mk("NonZero", <<Leaf(n)>>) : n \in IntNames}
    \cup FnTypes

TupleTypes(D) ==
    UNION {{Mk("Tuple", <<a>> \o [i \in 1..(n - 1) |-> b]) : a \in D, b \in ElemLeaves}
           : n \in 1..MaxArity}

CompositeTypes(D) ==
    {Mk(h, <<a>>) : h \in UnaryHeads, a \in D}
    \cup {Mk(h, <<a, b>>) : h \in BinaryHeads, a \in D, b \in ElemLeaves}
    \cup TupleTypes(D)

Universe == LeafTypes \cup CompositeTypes(Inner(MaxDepth - 1))

RECURSIVE SubTerms(_)
SubTerms(ty) == {ty} \cup UNION {SubTerms(ty.args[i]) : i \in DOMAIN ty.args}

(***************************************************************************)
(* Static resolution: ty implements tr at tier when some impl of tr        *)
(* applies to it with all its bounds met.  ImplFor is the impl selected.   *)
(***************************************************************************)
RECURSIVE Implements(_, _, _)
ImplApplies(rule, ty, tr, tier) ==
    /\ rule \in RulesOf(tr)
    /\ Header(rule, ty, tier)
    /\ NeedsMarker(rule) => NonRecursive(ty)
    /\ \A b \in Bounds(rule, ty, tier) : Implements(b.ty, tr, b.tier)

Implements(ty, tr, tier) == \E rule \in RulesOf(tr) : ImplApplies(rule, ty, tr, tier)

ImplFor(ty, tr, tier) == CHOOSE rule \in RulesOf(tr) : ImplApplies(rule, ty, tr, tier)

(***************************************************************************)
(* Run-time values.  A value is [tag, n, kids, poison]:                    *)
(*   "val"       a scalar, n its value                                     *)
(*   "Atomic"    an atomic, n the stored value                             *)
(*   "None" / "Some" / "Ok" / "Err" / "Tuple" / "Array" / "ManuallyDrop"   *)
(*               kids the fields                                           *)
(*   "Cell"      kids the content                                          *)
(*   "RefCell"   kids the content, n the borrow flag (0 unused, -1         *)
(*               mutably borrowed, k > 0 shared borrows)                   *)
(*   "Lock"      a Mutex or RwLock: kids the guarded value, n = 1 while    *)
(*               the calling thread holds it exclusively, 2 while it holds *)
(*               it for reading, poison the poison flag                    *)
(*   "Rc"        an Rc / Arc / Pin of them: n the address of the backing   *)
(*   "Weak"      n the address of the backing, 0 for Weak::new()           *)
(*   "Buf"       an owning collection / Box: n the address of its buffer,  *)
(*               the buffer's value holds the entries                      *)
(*   "Ptr"       a raw pointer or reference: n the address pointed to      *)
(* heap is a sequence of allocations [strong, weak, val]; the address of   *)
(* an allocation is its index.                                             *)
(***************************************************************************)
V(tag, n, kids) == [tag |-> tag, n |-> n, kids |-> kids, poison |-> FALSE]

NoValue == V("NoValue", 0, <<>>)

Alloc(val) == [strong |-> 1, weak |-> 0, val |-> val]

\* Rc::strong_count / upgradability of the backing at address a
Alive(h, a) == a \in 1..Len(h) /\ h[a].strong > 0

\* the type of field i of a value v of type ty
ElemType(ty, v, i) ==
    CASE ty.head = "Tuple" -> ty.args[i]
      [] ty.head \in {"BTreeMap", "HashMap"} -> ty.args[((i - 1) % 2) + 1]
      [] v.tag = "Err" -> ty.args[2]
      [] OTHER -> ty.args[1]

(***************************************************************************)
(* The clone operations.  An execution state is [heap, calls, out]: calls  *)
(* logs every trait method entered as [ty, tr, tier, rule, depth]; out is  *)
(* "ok", or "panic" / "blocked" once the call cannot return.               *)
(* A result is [val, heap, calls, out].                                    *)
(***************************************************************************)
Ret(v, st) ==
    [val |-> v, heap |-> st.heap, calls |-> st.calls, out |-> st.out, plat |-> st.plat]

Fail(how, st) ==
    [val |-> NoValue, heap |-> st.heap, calls |-> st.calls, out |-> how, plat |-> st.plat]

StateOf(r) == [heap |-> r.heap, calls |-> r.calls, out |-> r.out, plat |-> r.plat]

\* What std leaves open about a thread acquiring a lock it already holds:
\* Mutex::lock / RwLock::read on a lock held exclusively never returns, by
\* deadlock or by panic (relock); RwLock::read on a lock the thread holds
\* for reading may return, deadlock or panic (reread).
Platforms ==
    [relock : {"blocks", "panics"}, reread : {"returns", "blocks", "panics"}]

\* the futex-based locks: no deadlock detection, readers share
DefaultPlat == [relock |-> "blocks", reread |-> "returns"]

\* src of a result is the source value as the call leaves it; a body that
\* does not touch its source leaves the field out
Sourced(r, v) == r @@ [src |-> v]

Call(ty, tr, tier, rule, depth) ==
    [ty |-> ty, tr |-> tr, tier |-> tier, rule |-> rule, depth |-> depth]

\* Rc::new / Arc::new / collect(): a fresh allocation holding v
New(tag, v, st) ==
    Ret(V(tag, Len(st.heap) + 1, <<>>), [st EXCEPT !.heap = Append(@, Alloc(v))])

\* every blanket impl delegating straight to the NearInstant impl
blanket_delegate_to_near_instant(tier) == "NearInstant"

\* blanket_impls!: the tier of the impl each blanket impl delegates to
blanket_delegate(tier) == Faster(tier)

\* impls whose body is `*self` or `self.clone()` of a plain value
CopyRules ==
    {"impl_copy", "independent_non_recursive_near_instant", "independent_function",
     "mirrored_non_recursive_near_instant", "mirrored_function",
     "mixed_non_recursive_near_instant", "downstream_impl"}

\* Self::new(self.load(Ordering::Relaxed))
atomic_body(v) == V(v.tag, v.n, <<>>)

\* an Rc cloned into a backing of its own, a Weak into an empty one
refcounted_body_fresh(v, st) ==
    IF v.tag = "Rc" THEN New("Rc", st.heap[v.n].val, st) ELSE Ret(V("Weak", 0, <<>>), st)

\* Rc::clone / Weak::clone: the same backing, its count raised by one
refcounted_body(v, st) ==
    IF v.tag = "Rc"
    THEN Ret(v, [st EXCEPT !.heap[v.n].strong = @ + 1])
    ELSE IF v.n = 0 THEN Ret(v, st)
    ELSE Ret(v, [st EXCEPT !.heap[v.n].weak = @ + 1])

RECURSIVE Exec(_, _, _, _, _, _)
RECURSIVE ExecKids(_, _, _, _, _, _, _)
RECURSIVE DropVal(_, _)
RECURSIVE DropKids(_, _, _)

\* the element operation applied to fields from..Len(kids) of v, in order;
\* the result's val is a "Tuple" carrying the cloned fields, its src the
\* source fields from `from` on as the calls leave them
ExecKids(tr, tier, ty, v, from, st, d) ==
    IF from > Len(v.kids) \/ st.out # "ok" THEN
        Sourced(IF st.out = "ok" THEN Ret(V("Tuple", 0, <<>>), st) ELSE Fail(st.out, st),
                SubSeq(v.kids, from, Len(v.kids)))
    ELSE
        LET one == Exec(tr, tier, ElemType(ty, v, from), v.kids[from], st, d)
            rest == ExecKids(tr, tier, ty, v, from + 1, StateOf(one), d)
        IN  [rest EXCEPT
                !.val = IF rest.out = "ok"
                        THEN V("Tuple", 0, <<one.val>> \o rest.val.kids)
                        ELSE NoValue,
                !.src = <<one.src>> \o @]

\* the fields copied as they are, with no element operation
map_fields_bitwise(tr, tier, ty, v, st, d) == Ret(v, st)

\* as_ref().map(..) / each_ref().map(..) / Self::new(T::clone(..)): the same
\* shape around the cloned fields
map_fields(tr, tier, ty, v, st, d) ==
    LET r == ExecKids(tr, tier, ty, v, 1, st, d)
    IN  [r EXCEPT !.val = IF r.out = "ok" THEN V(v.tag, 0, r.val.kids) ELSE NoValue,
                  !.src = [v EXCEPT !.kids = r.src]]

\* Rc::clone(self): the same backing with its count raised
rc_body_shared(tr, tier, ty, v, st, d) == refcounted_body(v, st)

\* Rc::new(T::independent_clone(self)), Rc::pin(..) and the Arc forms
rc_body(tr, tier, ty, v, st, d) ==
    LET r == Exec(tr, tier, ty.args[1], st.heap[v.n].val, st, d)
        after == [StateOf(r) EXCEPT !.heap[v.n].val = r.src]
    IN  IF r.out # "ok" THEN Fail(r.out, after) ELSE New("Rc", r.val, after)

\* the referent cloned without asking whether it is still there
weak_body_unwrap(tr, tier, ty, v, st, d) ==
    IF Alive(st.heap, v.n) THEN rc_body(tr, tier, ty, v, st, d) ELSE Fail("panic", st)

\* if let Some(rc) = self.upgrade() { downgrade(&Rc::new(clone(&rc))) }
\* else { Self::new() }.  The temporary Rc::new(..) is dropped at the end
\* of the statement, so the new backing is left with no strong handle.
weak_body(tr, tier, ty, v, st, d) ==
    IF Alive(st.heap, v.n) THEN
        LET up == [st EXCEPT !.heap[v.n].strong = @ + 1]
            r == Exec(tr, tier, ty.args[1], st.heap[v.n].val, up, d)
            after == [StateOf(r) EXCEPT !.heap[v.n].val = r.src]
            a == Len(r.heap) + 1
            fresh == [strong |-> 0, weak |-> 1, val |-> NoValue]
        IN  IF r.out = "panic"
            THEN Fail("panic", [after EXCEPT !.heap[v.n].strong = @ - 1])
            ELSE IF r.out # "ok" THEN Fail(r.out, after)
            ELSE Ret(V("Weak", a, <<>>),
                     [after EXCEPT
                        !.heap = DropVal(r.val,
                                         [Append(@, fresh) EXCEPT ![v.n].strong = @ - 1])])
    ELSE Ret(V("Weak", 0, <<>>), st)

\* the content read without looking at the borrow flag
refcell_body_unchecked(tr, tier, ty, v, st, d) == map_fields(tr, tier, ty, v, st, d)

\* Self::new(T::independent_clone(&self.borrow())): borrow() panics while
\* the cell is mutably borrowed; the shared borrow taken for the call is
\* given back when it ends, and stays taken if the call never ends
refcell_body(tr, tier, ty, v, st, d) ==
    IF v.n < 0 THEN Fail("panic", st)
    ELSE LET r == Sourced(map_fields(tr, tier, ty, v, st, d), v)
         IN  IF r.out = "blocked" THEN [r EXCEPT !.src.n = v.n + 1] ELSE r

\* the lock is held by the calling thread: 1 exclusively (a MutexGuard or a
\* write guard), 2 for reading
HeldExclusive(v) == v.n = 1

HeldShared(v) == v.n = 2

\* a lock the holding thread can take again
acquire_reentrant(ty, v, st) == "acquired"

\* how self.lock() / self.read() ends: "acquired", or the way it fails
acquire(ty, v, st) ==
    CASE HeldExclusive(v) ->
            IF st.plat.relock = "panics" THEN "panic" ELSE "blocked"
      [] HeldShared(v) /\ st.plat.reread = "blocks" -> "blocked"
      [] HeldShared(v) /\ st.plat.reread = "panics" -> "panic"
      [] OTHER -> "acquired"

\* the poison flag ignored, as by unwrap_or_else(PoisonError::into_inner)
lock_body_ignore_poison(tr, tier, ty, v, st, d) == map_fields(tr, tier, ty, v, st, d)

\* the guard taken for the call leaked instead of dropped
lock_body_keep_guard(tr, tier, ty, v, st, d) ==
    [map_fields(tr, tier, ty, v, st, d) EXCEPT !.src = [v EXCEPT !.n = 1]]

\* Self::new(T::independent_clone(&self.lock().unwrap())), and read() for
\* RwLock.  unwrap panics on poison.  The guard is dropped when the call
\* ends: dropped by a panic of T's clone it poisons a Mutex (a read guard
\* poisons nothing); it stays held if T's clone never returns.
lock_body(tr, tier, ty, v, st, d) ==
    IF acquire(ty, v, st) # "acquired" THEN Fail(acquire(ty, v, st), st)
    ELSE IF v.poison THEN Fail("panic", st)
    ELSE LET r == Sourced(map_fields(tr, tier, ty, v, st, d), v)
         IN  CASE r.out = "panic" /\ ty.head = "Mutex" -> [r EXCEPT !.src.poison = TRUE]
               [] r.out = "blocked" ->
                    [r EXCEPT !.src.n = IF ty.head = "Mutex" THEN 1 ELSE 2]
               [] OTHER -> r

\* self.iter().map(T::independent_clone).collect(): a fresh collection
collect_body(tr, tier, ty, v, st, d) ==
    LET r == ExecKids(tr, tier, ty, st.heap[v.n].val, 1, st, d)
        after == [StateOf(r) EXCEPT !.heap[v.n].val.kids = r.src]
    IN  IF r.out # "ok" THEN Fail(r.out, after)
        ELSE New("Buf", V("Entries", 0, r.val.kids), after)

\* Box<str>::clone: a fresh allocation with the same text
box_str_body(v, st) == New("Buf", st.heap[v.n].val, st)

\* Cow::clone: Borrowed stays the same reference, Owned is cloned
cow_body(v, st) ==
    IF v.tag = "Ptr" THEN Ret(v, st) ELSE New("Buf", st.heap[v.n].val, st)

Exec(tr, tier, ty, v, st, d) ==
    IF st.out # "ok" THEN Sourced(Fail(st.out, st), v)
    ELSE
    LET rule == ImplFor(ty, tr, tier)
        st1 == [st EXCEPT !.calls = Append(@, Call(ty, tr, tier, rule, d))]
    IN  Sourced(
        CASE rule = "blanket_impls" ->
                Exec(tr, blanket_delegate(tier), ty, v, st1, d)
          [] rule \in CopyRules -> Ret(v, st1)
          [] rule \in {"independent_atomic", "mixed_atomic_ptr"} ->
                Ret(atomic_body(v), st1)
          [] rule \in {"independent_make_tuple_macro", "mirrored_make_tuple_macro",
                       "mirrored_option", "mirrored_result"} ->
                map_fields(tr, tier, ty, v, st1, d + 1)
          [] rule = "constant_or_slower" ->
               (CASE ty.head \in {"Array", "Option", "Result", "ManuallyDrop", "Cell"} ->
                        map_fields(tr, tier, ty, v, st1, d + 1)
                  [] ty.head = "RefCell" -> refcell_body(tr, tier, ty, v, st1, d + 1)
                  [] ty.head \in {"Rc", "PinRc", "Arc", "PinArc"} ->
                        rc_body(tr, tier, ty, v, st1, d + 1)
                  [] ty.head \in {"RcWeak", "ArcWeak"} ->
                        weak_body(tr, tier, ty, v, st1, d + 1)
                  [] ty.head \in {"RwLock", "Mutex"} ->
                        lock_body(tr, tier, ty, v, st1, d + 1))
          [] rule \in {"map_and_collect", "independent_pin_box_slice",
                       "independent_btree_map", "independent_hash_set",
                       "independent_hash_map"} ->
                collect_body(tr, tier, ty, v, st1, d + 1)
          [] rule = "independent_box_str" -> box_str_body(v, st1)
          [] rule \in {"refcounted", "pinned_refcounted"} -> refcounted_body(v, st1)
          [] rule = "mixed_cow" -> cow_body(v, st1),
        v)

(***************************************************************************)
(* What the program around the clone call does with values: dropping a     *)
(* handle, reading everything its public interface shows, mutating it.     *)
(***************************************************************************)
\* drop the fields from..Len(kids) of v
DropKids(kids, from, h) ==
    IF from > Len(kids) THEN h
    ELSE DropKids(kids, from + 1, DropVal(kids[from], h))

\* drop(v): an Rc gives up its strong count and the backing's value goes
\* with the last one; a collection frees its buffer
DropVal(v, h) ==
    CASE v.tag = "Rc" ->
            IF h[v.n].strong = 1
            THEN DropVal(h[v.n].val, [h EXCEPT ![v.n].strong = 0, ![v.n].val = NoValue])
            ELSE [h EXCEPT ![v.n].strong = @ - 1]
      [] v.tag = "Weak" ->
            IF v.n = 0 THEN h ELSE [h EXCEPT ![v.n].weak = @ - 1]
      [] v.tag = "Buf" ->
            DropKids(h[v.n].val.kids, 1,
                     [h EXCEPT ![v.n].strong = 0, ![v.n].val = NoValue])
      [] OTHER -> DropKids(v.kids, 1, h)

RECURSIVE Observe(_, _)
\* everything the public interface of v shows: contents behind handles and
\* strong counts, but no addresses of backing storage
Observe(v, h) ==
    CASE v.tag = "Rc" ->
            [tag |-> "Rc", n |-> h[v.n].strong,
             kids |-> <<Observe(h[v.n].val, h)>>, poison |-> FALSE]
      [] v.tag = "Weak" ->
            IF Alive(h, v.n)
            THEN [tag |-> "Weak", n |-> h[v.n].strong,
                  kids |-> <<Observe(h[v.n].val, h)>>, poison |-> FALSE]
            ELSE V("Weak", 0, <<>>)
      [] v.tag = "Buf" ->
            [tag |-> "Buf", n |-> 0,
             kids |-> [i \in DOMAIN h[v.n].val.kids |-> Observe(h[v.n].val.kids[i], h)],
             poison |-> FALSE]
      [] OTHER ->
            [v EXCEPT !.kids = [i \in DOMAIN v.kids |-> Observe(v.kids[i], h)]]

\* the values a scalar takes
Vals == {0, 1}

OtherVal(n) == CHOOSE m \in Vals : m # n

WriteKinds == {"set", "push"}

GuardKinds == {"lock", "read", "poison", "borrow_mut", "borrow"}

RECURSIVE Poke(_, _, _, _, _)
RECURSIVE PokeKids(_, _, _, _, _, _)

\* Act on the first place under v (of type ty) that the holder may act on:
\* kind "set" overwrites a scalar or atomic, kind "push" appends to a
\* collection of scalars; kind "lock" / "read" takes a guard of a free lock
\* and keeps it, "poison" is a holder of the lock panicking, "borrow_mut" /
\* "borrow" takes a RefMut / Ref of an unborrowed RefCell and keeps it.
\* excl says the holder has exclusive access; a shared Rc takes it away, a
\* Cell, RefCell, Mutex or RwLock gives it back for the content.  The result
\* is [val, heap, done].
Poke(ty, v, h, kind, excl) ==
    CASE v.tag = "val" /\ kind = "set" /\ excl /\ ty.head # "unit" ->
            [val |-> V("val", OtherVal(v.n), <<>>), heap |-> h, done |-> TRUE]
      [] v.tag = "Atomic" /\ kind = "set" ->
            [val |-> V("Atomic", OtherVal(v.n), <<>>), heap |-> h, done |-> TRUE]
      [] v.tag \in {"Some", "Ok", "Err", "Tuple", "Array", "ManuallyDrop"} ->
            PokeKids(ty, v, 1, h, kind, excl)
      [] v.tag = "Cell" -> PokeKids(ty, v, 1, h, kind, TRUE)
      [] v.tag = "RefCell" /\ v.n = 0 /\ kind \in WriteKinds ->
            PokeKids(ty, v, 1, h, kind, TRUE)
      [] v.tag = "RefCell" /\ v.n = 0 /\ kind \in {"borrow_mut", "borrow"} ->
            [val |-> [v EXCEPT !.n = IF kind = "borrow" THEN 1 ELSE -1],
             heap |-> h, done |-> TRUE]
      [] v.tag = "Lock" /\ v.n = 0 /\ ~v.poison /\ kind \in WriteKinds ->
            PokeKids(ty, v, 1, h, kind, TRUE)
      [] v.tag = "Lock" /\ v.n = 0 /\ ~v.poison /\ kind \in {"lock", "poison"} ->
            [val |-> IF kind = "lock" THEN [v EXCEPT !.n = 1]
                     ELSE [v EXCEPT !.poison = TRUE],
             heap |-> h, done |-> TRUE]
      [] v.tag = "Lock" /\ v.n = 0 /\ ~v.poison /\ kind = "read" /\ ty.head = "RwLock" ->
            [val |-> [v EXCEPT !.n = 2], heap |-> h, done |-> TRUE]
      [] v.tag \in {"Rc", "Weak"} /\ Alive(h, v.n) ->
            LET r == Poke(ty.args[1], h[v.n].val, h, kind,
                          excl /\ v.tag = "Rc" /\ h[v.n].strong = 1 /\ h[v.n].weak = 0)
            IN  [val |-> v,
                 heap |-> IF r.done THEN [r.heap EXCEPT ![v.n].val = r.val] ELSE h,
                 done |-> r.done]
      [] v.tag = "Buf" /\ ty.head \notin {"BoxStr", "Cow"} ->
            IF kind = "push" /\ excl /\ ty.args = <<Leaf("u8")>>
            THEN [val |-> v,
                  heap |-> [h EXCEPT ![v.n].val.kids = Append(@, V("val", 0, <<>>))],
                  done |-> TRUE]
            ELSE LET r == PokeKids(ty, h[v.n].val, 1, h, kind, excl)
                 IN  [val |-> v,
                      heap |-> IF r.done THEN [r.heap EXCEPT ![v.n].val = r.val] ELSE h,
                      done |-> r.done]
      [] OTHER -> [val |-> v, heap |-> h, done |-> FALSE]

PokeKids(ty, v, from, h, kind, excl) ==
    IF from > Len(v.kids) THEN [val |-> v, heap |-> h, done |-> FALSE]
    ELSE LET r == Poke(ElemType(ty, v, from), v.kids[from], h, kind, excl)
         IN  IF r.done
             THEN [val |-> [v EXCEPT !.kids[from] = r.val], heap |-> r.heap, done |-> TRUE]
             ELSE PokeKids(ty, v, from + 1, h, kind, excl)

(***************************************************************************)
(* State.                                                                  *)
(***************************************************************************)
VARIABLES
    focus,   \* the type whose impls are being resolved
    sem,     \* the clone trait being resolved
    marked,  \* the types among focus and its parts that implement NonRecursive
    impls,   \* the impls of sem found: records [ty, tr, tier, rule]
    heap,    \* the allocations
    s,       \* the value that is cloned
    sty,     \* its type
    keep,    \* the Rc a Weak in s was made from, while it is held
    c,       \* the clone returned
    req,     \* the call made: [tr, tier]
    calls,   \* the trait methods the call entered, in order
    outcome, \* "none" before the call, then "ok", "panic" or "blocked"
    heap0,   \* the allocations when the call was made
    ops,     \* steps taken on s and c since the call
    obs,     \* what s and c showed when each was last acted on
    holder,  \* the threads holding the mutex s (at most one of them)
    pc,      \* where each thread using the mutex s is
    left,    \* the updates each writer has still to make
    quiet    \* the guarded values at the instants no writer held the mutex

typeVars == <<focus, sem, marked, impls>>

runVars == <<heap, s, sty, keep, c, req, calls, outcome, heap0, ops, obs>>

concVars == <<holder, pc, left, quiet>>

vars == <<focus, sem, marked, impls,
          heap, s, sty, keep, c, req, calls, outcome, heap0, ops, obs,
          holder, pc, left, quiet>>

NoReq == [tr |-> "none", tier |-> "none"]

\* no value is being cloned
RunIdle ==
    /\ heap = <<>>
    /\ s = NoValue
    /\ sty = Opaque
    /\ keep = NoValue
    /\ c = NoValue
    /\ req = NoReq
    /\ calls = <<>>
    /\ outcome = "none"
    /\ heap0 = <<>>
    /\ ops = 0
    /\ obs = [s |-> NoValue, c |-> NoValue]

\* no thread shares the value
ConcIdle ==
    /\ holder = {}
    /\ pc = <<>>
    /\ left = <<>>
    /\ quiet = {}

Fact(ty, tier, rule) == [ty |-> ty, tr |-> sem, tier |-> tier, rule |-> rule]

\* ty: sem<tier> holds in the table
Holds(ty, tier) == \E f \in impls : f.ty = ty /\ f.tr = sem /\ f.tier = tier

\* The marker impls have no bounds: they are resolved up front.
InitTypes ==
    /\ focus \in Universe
    /\ sem \in Traits
    /\ marked = {ty \in SubTerms(focus) : NonRecursive(ty)}
    /\ impls = {}
    /\ RunIdle
    /\ ConcIdle

\* the impl `rule` of sem applies to ty at tier with all its bounds met
Applicable(rule, ty, tier) ==
    /\ Header(rule, ty, tier)
    /\ rule \in RulesOf(sem)
    /\ NeedsMarker(rule) => ty \in marked
    /\ \A b \in Bounds(rule, ty, tier) : Holds(b.ty, b.tier)

\* resolve ty: sem<tier> by the impl `rule`
Apply(rule, ty, tier) ==
    /\ Applicable(rule, ty, tier)
    /\ Fact(ty, tier, rule) \notin impls
    /\ impls' = impls \cup {Fact(ty, tier, rule)}
    /\ UNCHANGED <<focus, sem, marked, runVars, concVars>>

\* resolve an impl that is generic over S: Speed and puts no clone bound on
\* its parameters; the one impl covers every tier
ApplyEverySpeed(rule, ty) ==
    /\ \A tier \in Tiers : Applicable(rule, ty, tier)
    /\ \E tier \in Tiers : Fact(ty, tier, rule) \notin impls
    /\ impls' = impls \cup {Fact(ty, tier, rule) : tier \in Tiers}
    /\ UNCHANGED <<focus, sem, marked, runVars, concVars>>

\* blanket_impls.rs: blanket_impls!
Apply_blanket_impls ==
    \E ty \in SubTerms(focus), tier \in Tiers : Apply("blanket_impls", ty, tier)

Apply_downstream_impl ==
    \E ty \in SubTerms(focus), tier \in Tiers : Apply("downstream_impl", ty, tier)

\* independent.rs
Apply_impl_copy ==
    /\ sem = IndependentClone
    /\ \E ty \in SubTerms(focus), tier \in Tiers : Apply("impl_copy", ty, tier)

Apply_independent_non_recursive_near_instant ==
    /\ sem = IndependentClone
    /\ \E ty \in SubTerms(focus), tier \in Tiers : Apply("independent_non_recursive_near_instant", ty, tier)

Apply_independent_atomic ==
    /\ sem = IndependentClone
    /\ \E ty \in SubTerms(focus), tier \in Tiers : Apply("independent_atomic", ty, tier)

Apply_independent_function ==
    /\ sem = IndependentClone
    /\ \E ty \in SubTerms(focus), tier \in Tiers : Apply("independent_function", ty, tier)

Apply_independent_make_tuple_macro ==
    /\ sem = IndependentClone
    /\ \E ty \in SubTerms(focus), tier \in Tiers : Apply("independent_make_tuple_macro", ty, tier)

Apply_constant_or_slower ==
    /\ sem = IndependentClone
    /\ \E ty \in SubTerms(focus), tier \in Tiers : Apply("constant_or_slower", ty, tier)

Apply_map_and_collect ==
    /\ sem = IndependentClone
    /\ \E ty \in SubTerms(focus), tier \in Tiers : Apply("map_and_collect", ty, tier)

Apply_independent_pin_box_slice ==
    /\ sem = IndependentClone
    /\ \E ty \in SubTerms(focus), tier \in Tiers : Apply("independent_pin_box_slice", ty, tier)

Apply_independent_box_str ==
    /\ sem = IndependentClone
    /\ \E ty \in SubTerms(focus), tier \in Tiers : Apply("independent_box_str", ty, tier)

Apply_independent_btree_map ==
    /\ sem = IndependentClone
    /\ \E ty \in SubTerms(focus), tier \in Tiers : Apply("independent_btree_map", ty, tier)

Apply_independent_hash_set ==
    /\ sem = IndependentClone
    /\ \E ty \in SubTerms(focus), tier \in Tiers : Apply("independent_hash_set", ty, tier)

Apply_independent_hash_map ==
    /\ sem = IndependentClone
    /\ \E ty \in SubTerms(focus), tier \in Tiers : Apply("independent_hash_map", ty, tier)

\* mirrored.rs
Apply_mirrored_non_recursive_near_instant ==
    /\ sem = MirroredClone
    /\ \E ty \in SubTerms(focus), tier \in Tiers : Apply("mirrored_non_recursive_near_instant", ty, tier)

Apply_refcounted ==
    /\ sem = MirroredClone
    /\ \E ty \in SubTerms(focus) : ApplyEverySpeed("refcounted", ty)

Apply_mirrored_function ==
    /\ sem = MirroredClone
    /\ \E ty \in SubTerms(focus), tier \in Tiers : Apply("mirrored_function", ty, tier)

Apply_pinned_refcounted ==
    /\ sem = MirroredClone
    /\ \E ty \in SubTerms(focus) : ApplyEverySpeed("pinned_refcounted", ty)

Apply_mirrored_make_tuple_macro ==
    /\ sem = MirroredClone
    /\ \E ty \in SubTerms(focus), tier \in Tiers : Apply("mirrored_make_tuple_macro", ty, tier)

Apply_mirrored_option ==
    /\ sem = MirroredClone
    /\ \E ty \in SubTerms(focus), tier \in Tiers : Apply("mirrored_option", ty, tier)

Apply_mirrored_result ==
    /\ sem = MirroredClone
    /\ \E ty \in SubTerms(focus), tier \in Tiers : Apply("mirrored_result", ty, tier)

\* mixed.rs
Apply_mixed_non_recursive_near_instant ==
    /\ sem = MixedClone
    /\ \E ty \in SubTerms(focus), tier \in Tiers : Apply("mixed_non_recursive_near_instant", ty, tier)

Apply_mixed_atomic_ptr ==
    /\ sem = MixedClone
    /\ \E ty \in SubTerms(focus), tier \in Tiers : Apply("mixed_atomic_ptr", ty, tier)

Apply_mixed_cow ==
    /\ sem = MixedClone
    /\ \E ty \in SubTerms(focus) : ApplyEverySpeed("mixed_cow", ty)

NextTypes ==
    \/ Apply_blanket_impls
    \/ Apply_downstream_impl
    \/ Apply_impl_copy
    \/ Apply_independent_non_recursive_near_instant
    \/ Apply_independent_atomic
    \/ Apply_independent_function
    \/ Apply_independent_make_tuple_macro
    \/ Apply_constant_or_slower
    \/ Apply_map_and_collect
    \/ Apply_independent_pin_box_slice
    \/ Apply_independent_box_str
    \/ Apply_independent_btree_map
    \/ Apply_independent_hash_set
    \/ Apply_independent_hash_map
    \/ Apply_mirrored_non_recursive_near_instant
    \/ Apply_refcounted
    \/ Apply_mirrored_function
    \/ Apply_pinned_refcounted
    \/ Apply_mirrored_make_tuple_macro
    \/ Apply_mirrored_option
    \/ Apply_mirrored_result
    \/ Apply_mixed_non_recursive_near_instant
    \/ Apply_mixed_atomic_ptr
    \/ Apply_mixed_cow

SpecTypes == InitTypes /\ [][NextTypes]_vars


(***************************************************************************)
(* SpecRun: a value is built, one clone call is made on it, and the source *)
(* and the clone are then mutated and dropped.                             *)
(***************************************************************************)
Typed(ty, v, h) == [ty |-> ty, val |-> v, heap |-> h]

Scalar(n) == V("val", n, <<>>)

\* the leaf values a run starts from; the last three are Weak::new(),
\* Cow::Borrowed and Cow::Owned
RunLeaves ==
    {Typed(Leaf("u8"), Scalar(n), <<>>) : n \in Vals}
    \cup
    {Typed(Leaf("AtomicU8"), V("Atomic", 0, <<>>), <<>>),
     Typed(Leaf("unit"), Scalar(0), <<>>),
     Typed(Leaf("const_ptr"), V("Ptr", 0, <<>>), <<>>),
     Typed(Leaf("NonRecNearInstant"), Scalar(0), <<>>),
     Typed(Leaf("NonRecConstantTime"), Scalar(0), <<>>),
     Typed(Leaf("BoxStr"), V("Buf", 1, <<>>), <<Alloc(V("Entries", 0, <<Scalar(0)>>))>>),
     Typed(Mk("Option", <<Leaf("u8")>>), V("None", 0, <<>>), <<>>),
     Typed(Mk("RcWeak", <<Leaf("u8")>>), V("Weak", 0, <<>>), <<>>),
     Typed(Leaf("Cow"), V("Ptr", 0, <<>>), <<>>),
     Typed(Leaf("Cow"), V("Buf", 1, <<>>), <<Alloc(V("Entries", 0, <<Scalar(0)>>))>>)}

WrapKinds ==
    {"Some", "Ok", "Err", "Tuple", "Cell", "RefCell", "Mutex", "RwLock", "Rc", "Vec"}

\* Some(v), Ok(v), Err(v), (v, 0), Cell::new(v), RefCell::new(v),
\* Mutex::new(v), RwLock::new(v), Rc::new(v), vec![v]
Wrapped(kind, ty, v, h) ==
    CASE kind = "Some" -> Typed(Mk("Option", <<ty>>), V("Some", 0, <<v>>), h)
      [] kind = "Ok" -> Typed(Mk("Result", <<ty, Leaf("u8")>>), V("Ok", 0, <<v>>), h)
      [] kind = "Err" -> Typed(Mk("Result", <<Leaf("u8"), ty>>), V("Err", 0, <<v>>), h)
      [] kind = "Tuple" ->
            Typed(Mk("Tuple", <<ty, Leaf("u8")>>), V("Tuple", 0, <<v, Scalar(0)>>), h)
      [] kind = "Cell" -> Typed(Mk("Cell", <<ty>>), V("Cell", 0, <<v>>), h)
      [] kind = "RefCell" -> Typed(Mk("RefCell", <<ty>>), V("RefCell", 0, <<v>>), h)
      [] kind = "Mutex" -> Typed(Mk("Mutex", <<ty>>), V("Lock", 0, <<v>>), h)
      [] kind = "RwLock" -> Typed(Mk("RwLock", <<ty>>), V("Lock", 0, <<v>>), h)
      [] kind = "Rc" ->
            Typed(Mk("Rc", <<ty>>), V("Rc", Len(h) + 1, <<>>), Append(h, Alloc(v)))
      [] kind = "Vec" ->
            Typed(Mk("Vec", <<ty>>), V("Buf", Len(h) + 1, <<>>),
                  Append(h, Alloc(V("Entries", 0, <<v>>))))

RECURSIVE Depth(_)
Depth(ty) ==
    IF ty.args = <<>> THEN 0
    ELSE 1 + (CHOOSE m \in {Depth(ty.args[i]) : i \in DOMAIN ty.args} :
                \A i \in DOMAIN ty.args : Depth(ty.args[i]) <= m)

TypesIdle ==
    /\ focus = Opaque
    /\ sem = IndependentClone
    /\ marked = {}
    /\ impls = {}

InitRun ==
    /\ TypesIdle
    /\ \E l \in RunLeaves : s = l.val /\ sty = l.ty /\ heap = l.heap
    /\ keep = NoValue
    /\ c = NoValue
    /\ req = NoReq
    /\ calls = <<>>
    /\ outcome = "none"
    /\ heap0 = <<>>
    /\ ops = 0
    /\ obs = [s |-> NoValue, c |-> NoValue]
    /\ ConcIdle

RECURSIVE Guarded(_, _)
\* a guard of a lock or a borrow of a RefCell under v is outstanding
Guarded(v, h) ==
    \/ v.tag \in {"Lock", "RefCell"} /\ v.n # 0
    \/ \E i \in DOMAIN v.kids : Guarded(v.kids[i], h)
    \/ v.tag \in {"Rc", "Weak", "Buf"} /\ Alive(h, v.n) /\ Guarded(h[v.n].val, h)

\* the program wraps the value in a constructor before cloning it; a value
\* with an outstanding guard or borrow cannot be moved.  RwLock and Cow are
\* explored as the outermost type only.
Wrap ==
    /\ outcome = "none"
    /\ Depth(sty) < MaxWrap
    /\ ~Guarded(s, heap)
    /\ sty.head \notin {"RwLock", "Cow"}
    /\ \E kind \in WrapKinds :
        /\ kind = "Cell" => IsCopy(sty)
        /\ \E w \in {Wrapped(kind, sty, s, heap)} :
               s' = w.val /\ sty' = w.ty /\ heap' = w.heap
    /\ UNCHANGED <<typeVars, concVars, keep, c, req, calls, outcome, heap0, ops, obs>>

\* Rc::downgrade(&s): s becomes the Weak; the Rc is kept, or dropped at once
Downgrade ==
    /\ outcome = "none"
    /\ sty.head = "Rc"
    /\ keep = NoValue
    /\ \E held \in BOOLEAN :
        LET h1 == [heap EXCEPT ![s.n].weak = @ + 1]
        IN  /\ s' = V("Weak", s.n, <<>>)
            /\ sty' = Mk("RcWeak", sty.args)
            /\ keep' = IF held THEN s ELSE NoValue
            /\ held \/ ~Guarded(s, heap)
            /\ heap' = IF held THEN h1 ELSE DropVal(s, h1)
    /\ UNCHANGED <<typeVars, concVars, c, req, calls, outcome, heap0, ops, obs>>

\* the program takes a guard or a borrow of s and keeps it, or a thread
\* holding the lock s panics
Seize ==
    /\ outcome = "none"
    /\ sty.head \in {"Mutex", "RwLock", "RefCell"}
    /\ \E kind \in GuardKinds :
        \E r \in {Poke(sty, s, heap, kind, TRUE)} :
            /\ r.done
            /\ s' = r.val
            /\ heap' = r.heap
    /\ UNCHANGED <<typeVars, concVars, sty, keep, c, req, calls, outcome, heap0, ops, obs>>

\* one call of tr<tier>'s method on s, from entry to the point where it
\* returns, panics or blocks for good
CloneCall(tr, tier) ==
    /\ outcome = "none"
    /\ Implements(sty, tr, tier)
    /\ \E plat \in (IF Guarded(s, heap) THEN Platforms ELSE {DefaultPlat}) :
        \E r \in {Exec(tr, tier, sty, s,
                      [heap |-> heap, calls |-> <<>>, out |-> "ok", plat |-> plat], 0)} :
            /\ c' = r.val
            /\ s' = r.src
            /\ heap' = r.heap
            /\ calls' = r.calls
            /\ outcome' = r.out
            /\ obs' = [s |-> Observe(r.src, r.heap), c |-> Observe(r.val, r.heap)]
    /\ req' = [tr |-> tr, tier |-> tier]
    /\ heap0' = heap
    /\ UNCHANGED <<typeVars, concVars, sty, keep, ops>>

independent_clone ==
    /\ outcome = "none"
    /\ \E tier \in Tiers : CloneCall(IndependentClone, tier)

mirrored_clone ==
    /\ outcome = "none"
    /\ \E tier \in Tiers : CloneCall(MirroredClone, tier)

mixed_clone ==
    /\ outcome = "none"
    /\ \E tier \in Tiers : CloneCall(MixedClone, tier)

Handles == {"s", "c"}

HandleVal(h) == IF h = "s" THEN s ELSE c

\* a write through one of the two handles
Mutate ==
    /\ outcome = "ok"
    /\ ops < MaxOps
    /\ \E h \in Handles, kind \in WriteKinds :
        \E r \in {Poke(sty, HandleVal(h), heap, kind, TRUE)} :
            /\ HandleVal(h) # NoValue
            /\ r.done
            /\ heap' = r.heap
            /\ s' = IF h = "s" THEN r.val ELSE s
            /\ c' = IF h = "c" THEN r.val ELSE c
            /\ obs' = [obs EXCEPT ![h] = Observe(r.val, r.heap)]
    /\ ops' = ops + 1
    /\ UNCHANGED <<typeVars, concVars, sty, keep, req, calls, outcome, heap0>>

\* drop(s) or drop(c)
DropHandle ==
    /\ outcome = "ok"
    /\ ops < MaxOps
    /\ \E h \in Handles :
        /\ HandleVal(h) # NoValue
        /\ heap' = DropVal(HandleVal(h), heap)
        /\ s' = IF h = "s" THEN NoValue ELSE s
        /\ c' = IF h = "c" THEN NoValue ELSE c
        /\ obs' = [obs EXCEPT ![h] = NoValue]
    /\ ops' = ops + 1
    /\ UNCHANGED <<typeVars, concVars, sty, keep, req, calls, outcome, heap0>>

NextRun ==
    \/ Wrap
    \/ Seize
    \/ Downgrade
    \/ independent_clone
    \/ mirrored_clone
    \/ mixed_clone
    \/ Mutate
    \/ DropHandle

SpecRun == InitRun /\ [][NextRun]_vars

(***************************************************************************)
(* A Mutex<(u8, u8)> cloned by one thread while other threads update it.   *)
(* s is the mutex, c the clone; a writer locks, writes the first field,    *)
(* writes the second field and unlocks, or panics between the two writes.  *)
(***************************************************************************)
\* the thread that calls independent_clone
Cloner == 0

Writers == 1..MaxWriters

Threads == {Cloner} \cup Writers

\* a mutex that does not exclude
CanLock_unguarded == TRUE

\* self.lock() gets past waiting: no thread holds the mutex
CanLock == holder = {}

SharedPair == Mk("Mutex", <<Mk("Tuple", <<Leaf("u8"), Leaf("u8")>>)>>)

InitConc ==
    /\ TypesIdle
    /\ heap = <<>>
    /\ sty = SharedPair
    /\ \E a \in Vals : s = V("Lock", 0, <<V("Tuple", 0, <<Scalar(a), Scalar(a)>>)>>)
    /\ keep = NoValue
    /\ c = NoValue
    /\ \E tier \in Tiers :
        /\ Implements(sty, IndependentClone, tier)
        /\ req = [tr |-> IndependentClone, tier |-> tier]
    /\ calls = <<>>
    /\ outcome = "none"
    /\ heap0 = <<>>
    /\ ops = 0
    /\ obs = [s |-> NoValue, c |-> NoValue]
    /\ holder = {}
    /\ pc = [t \in Threads |-> IF t = Cloner THEN "waiting" ELSE "idle"]
    /\ left = [w \in Writers |-> MaxOps]
    /\ quiet = {s.kids[1]}

\* self.lock() in independent_clone returns the guard
clone_lock ==
    /\ pc[Cloner] = "waiting"
    /\ CanLock
    /\ holder' = holder \cup {Cloner}
    /\ pc' = [pc EXCEPT ![Cloner] = "locked"]
    /\ UNCHANGED <<typeVars, runVars, left, quiet>>

\* .unwrap() and Self::new(T::independent_clone(&guard)) with the guard held
clone_read ==
    /\ pc[Cloner] = "locked"
    /\ \E r \in {Exec(req.tr, req.tier, sty, s,
                     [heap |-> heap, calls |-> <<>>, out |-> "ok", plat |-> DefaultPlat], 0)} :
           /\ c' = r.val
           /\ s' = r.src
           /\ heap' = r.heap
           /\ calls' = r.calls
           /\ outcome' = r.out
    /\ pc' = [pc EXCEPT ![Cloner] = "read"]
    /\ UNCHANGED <<typeVars, sty, keep, req, heap0, ops, obs, holder, left, quiet>>

\* the guard is dropped and the call returns or unwinds
clone_unlock ==
    /\ pc[Cloner] = "read"
    /\ holder' = holder \ {Cloner}
    /\ pc' = [pc EXCEPT ![Cloner] = "done"]
    /\ UNCHANGED <<typeVars, runVars, left, quiet>>

\* a writer locks the mutex for its next update
writer_lock ==
    \E w \in Writers :
        /\ pc[w] = "idle"
        /\ left[w] > 0
        /\ ~s.poison
        /\ CanLock
        /\ holder' = holder \cup {w}
        /\ pc' = [pc EXCEPT ![w] = "locked"]
        /\ UNCHANGED <<typeVars, runVars, left, quiet>>

\* the writer holding the mutex writes the next field of the pair: a new
\* value to the first, then the same value to the second
writer_update ==
    \E w \in Writers :
        /\ pc[w] \in {"locked", "half"}
        /\ s' = IF pc[w] = "locked"
                THEN [s EXCEPT !.kids[1].kids[1] = Scalar(OtherVal(@.n))]
                ELSE [s EXCEPT !.kids[1].kids[2] = s.kids[1].kids[1]]
        /\ pc' = [pc EXCEPT ![w] = IF pc[w] = "locked" THEN "half" ELSE "full"]
        /\ UNCHANGED <<typeVars, heap, sty, keep, c, req, calls, outcome, heap0, ops,
                       obs, holder, left, quiet>>

\* the writer drops its guard after the update
writer_unlock ==
    \E w \in Writers :
        /\ pc[w] = "full"
        /\ holder' = holder \ {w}
        /\ pc' = [pc EXCEPT ![w] = "idle"]
        /\ left' = [left EXCEPT ![w] = @ - 1]
        /\ quiet' = quiet \cup {s.kids[1]}
        /\ UNCHANGED <<typeVars, runVars>>

\* the writer panics between its two writes: unwinding drops the guard and
\* poisons the mutex
writer_panic ==
    \E w \in Writers :
        /\ pc[w] = "half"
        /\ holder' = holder \ {w}
        /\ pc' = [pc EXCEPT ![w] = "dead"]
        /\ s' = [s EXCEPT !.poison = TRUE]
        /\ quiet' = quiet \cup {s.kids[1]}
        /\ UNCHANGED <<typeVars, heap, sty, keep, c, req, calls, outcome, heap0, ops,
                       obs, left>>

NextConc ==
    \/ clone_lock
    \/ clone_read
    \/ clone_unlock
    \/ writer_lock
    \/ writer_update
    \/ writer_unlock
    \/ writer_panic

SpecConc == InitConc /\ [][NextConc]_vars

\* the cloning thread is scheduled, and every writer holding the mutex goes
\* on to release it.  clone_read is enabled exactly while the cloning thread
\* is at "locked" and every clone_read step leaves "locked", so weak
\* fairness of clone_read is that the thread is not at "locked" for ever.
FairConc ==
    /\ SpecConc
    /\ WF_vars(clone_lock)
    /\ []<>(pc[Cloner] # "locked")
    /\ WF_vars(clone_unlock)
    /\ WF_vars(writer_update)
    /\ WF_vars(writer_unlock)

(***************************************************************************)
(* Properties of trait resolution (SpecTypes).                             *)
(***************************************************************************)
\* every impl that applies has been resolved
Saturated ==
    \A ty \in SubTerms(focus), tier \in Tiers, rule \in RulesOf(sem) :
        Applicable(rule, ty, tier) => Fact(ty, tier, rule) \in impls

\* built only from types the crate itself covers
CrateCovered(ty) ==
    \A p \in SubTerms(ty) : p.head \notin DownstreamHeads

Slower(t, u) == Rank(t) > Rank(u)

\* C1: once resolution is complete, the tiers at which a crate-covered type
\* implements the trait are upward-closed: an impl at tier S comes with an
\* impl at every tier slower than S.
C1_TierSubtyping ==
    Saturated =>
        \A f \in impls :
            CrateCovered(f.ty) =>
                \A t \in Tiers : Slower(t, f.tier) => Holds(f.ty, t)

\* a composite resolved from ConstantTime up, over a promoted leaf
C1_Witness ==
    /\ Saturated
    /\ sem = IndependentClone
    /\ focus = Mk("Option", <<Mk("Rc", <<Leaf("u8")>>)>>)
    /\ Holds(focus, "ConstantTime") /\ Holds(focus, "AnySpeed")
    /\ Holds(Leaf("u8"), "NearInstant") /\ Holds(Leaf("u8"), "AnySpeed")

Manual(f) == f.rule # "blanket_impls"

\* C2: a blanket impl is only ever resolved for a marked type, at a tier
\* other than NearInstant, from the impl at the next faster tier, and below
\* it lies a manual impl at a strictly faster tier; once resolution is
\* complete a marked type has a blanket impl at every tier slower than its
\* manual impl.
C2_Promotion ==
    /\ \A f \in impls :
        ~Manual(f) =>
            /\ f.ty \in marked
            /\ f.tier # "NearInstant"
            /\ Holds(f.ty, Faster(f.tier))
            /\ \E g \in impls : g.ty = f.ty /\ Manual(g) /\ Slower(f.tier, g.tier)
    /\ Saturated =>
        \A g \in impls :
            (Manual(g) /\ g.ty \in marked) =>
                \A t \in Tiers :
                    Slower(t, g.tier) =>
                        Fact(g.ty, t, "blanket_impls") \in impls

\* a marked type with its manual impl at ConstantTime: promoted to LogTime
\* and AnySpeed, never to NearInstant
C2_Witness ==
    /\ Saturated
    /\ focus = Leaf("NonRecConstantTime")
    /\ focus \in marked
    /\ Fact(focus, "ConstantTime", "downstream_impl") \in impls
    /\ Fact(focus, "LogTime", "blanket_impls") \in impls
    /\ Fact(focus, "AnySpeed", "blanket_impls") \in impls
    /\ ~Holds(focus, "NearInstant")

\* the impls of sem that apply to ty at tier
RulesApplying(ty, tier) == {rule \in RulesOf(sem) : Applicable(rule, ty, tier)}

C5_DocExamples ==
    \A ty \in SubTerms(focus) :
        /\ ty.head \in {"u8", "Rc"} => ty \in marked
        /\ ty.head = "Option" => ty \notin marked

\* the containers whose clone is built from their elements
ElementWiseHeads ==
    {"Tuple"} \cup ConstantOrSlowerHeads \cup MapAndCollectHeads
    \cup {"PinBoxSlice", "BTreeMap", "HashSet", "HashMap"}

SameTierDerived(f) == \A i \in DOMAIN f.ty.args : Holds(f.ty.args[i], f.tier)

IsScalar(ty) ==
    IsInt(ty) \/ IsNonZero(ty) \/ ty.head \in {"f32", "f64", "bool", "char"}

IsZeroSized(ty) ==
    ty.head \in {"unit", "Infallible", "Empty", "PhantomData", "PhantomPinned",
                 "RangeFull"}

IsRawPointer(ty) == ty.head \in {"const_ptr", "mut_ptr", "NonNull"}

\* C7 as stated: scalars, zero-sized types and raw pointers implement each
\* of the three traits at NearInstant.
C7_AllThreeTraits ==
    Saturated =>
        \A ty \in SubTerms(focus) :
            (IsScalar(ty) \/ IsZeroSized(ty) \/ IsRawPointer(ty))
                => Holds(ty, "NearInstant")

\* C7: at NearInstant a scalar implements IndependentClone only, a
\* zero-sized type IndependentClone and MirroredClone only, and a raw
\* pointer MixedClone only.
C7_PrimitiveCoverage ==
    Saturated =>
        \A ty \in SubTerms(focus) :
            /\ IsScalar(ty) => (Holds(ty, "NearInstant") <=> sem = IndependentClone)
            /\ IsZeroSized(ty) =>
                (Holds(ty, "NearInstant") <=> sem \in {IndependentClone, MirroredClone})
            /\ IsRawPointer(ty) => (Holds(ty, "NearInstant") <=> sem = MixedClone)

\* ((), u8) under MirroredClone: the unit has its NearInstant impl, the
\* integer none
C7_Witness ==
    /\ Saturated
    /\ sem = MirroredClone
    /\ focus = Mk("Tuple", <<Leaf("unit"), Leaf("u8")>>)
    /\ Holds(Leaf("unit"), "NearInstant")
    /\ ~Holds(Leaf("u8"), "NearInstant")

\* a fixed-size array, a tuple of an arity the tuple macros are invoked for,
\* an Option or a Result
IsShape(ty) == ty.head \in {"Array", "Option", "Result"} \/ IsTuple(ty)

FieldsHold(ty, tier) == \A i \in DOMAIN ty.args : Holds(ty.args[i], tier)

\* C8 as stated: for each trait and each tier, an array, tuple, Option or
\* Result whose fields implement (trait, tier) implements it too.
C8_EveryTraitEveryTier ==
    Saturated =>
        \A ty \in SubTerms(focus), tier \in Tiers :
            (IsShape(ty) /\ FieldsHold(ty, tier)) => Holds(ty, tier)

\* the (trait, tier) pairs at which the crate has an impl for the shape
Covers(tr, head, tier) ==
    \/ tr = IndependentClone /\ tier \in ConstantOrSlowerTiers
    \/ tr = MirroredClone /\ head \in {"Option", "Result"}
    \/ tr = MirroredClone /\ head = "Tuple" /\ tier \in ConstantOrSlowerTiers

\* C8: an array, tuple, Option or Result implements (trait, tier) exactly when
\* its fields do and the pair is one of: IndependentClone at ConstantTime,
\* LogTime or AnySpeed; MirroredClone for Option and Result at any tier and
\* for tuples at ConstantTime, LogTime or AnySpeed.
C8_CompositeCoverage ==
    Saturated =>
        \A ty \in SubTerms(focus), tier \in Tiers :
            IsShape(ty) =>
                (Holds(ty, tier) <=>
                    (Covers(sem, ty.head, tier) /\ FieldsHold(ty, tier)))

\* Option<()> under MirroredClone at NearInstant, and no tuple there
C8_Witness ==
    /\ Saturated
    /\ sem = MirroredClone
    /\ focus = Mk("Tuple", <<Mk("Option", <<Leaf("unit")>>)>>)
    /\ Holds(focus.args[1], "NearInstant")
    /\ ~Holds(focus, "NearInstant")
    /\ Holds(focus, "ConstantTime")

(***************************************************************************)
(* Properties of the clone operations (SpecRun).                           *)
(***************************************************************************)
\* the call has returned and neither s nor c has been touched since
JustCloned == outcome = "ok" /\ ops = 0

Fresh(h) == [heap |-> h, calls |-> <<>>, out |-> "ok", plat |-> DefaultPlat]

\* the number of blanket impls between tier and NearInstant
Hops(tier) == Rank(tier) - Rank("NearInstant")

\* C3: for a NonRecursive type with a NearInstant impl, the clone at a
\* slower tier returns the value the NearInstant operation returns and
\* leaves the heap as that operation leaves it; the calls entered are the
\* blanket impls of the type at each tier from the requested one down to
\* ConstantTime, each once, followed by the calls of the NearInstant
\* operation.
C3_TierSoundness ==
    (/\ JustCloned
     /\ req.tier # "NearInstant"
     /\ NonRecursive(sty)
     /\ Implements(sty, req.tr, "NearInstant"))
        => \A base \in {Exec(req.tr, "NearInstant", sty, s, Fresh(heap0), 0)} :
           LET k == Hops(req.tier)
           IN  /\ base.out = "ok"
               /\ c = base.val
               /\ heap = base.heap
               /\ Len(calls) = k + Len(base.calls)
               /\ \A i \in 1..k :
                    /\ calls[i].rule = "blanket_impls"
                    /\ calls[i].ty = sty
                    /\ calls[i].tr = req.tr
                    /\ Rank(calls[i].tier) = Rank(req.tier) - (i - 1)
               /\ SubSeq(calls, k + 1, Len(calls)) = base.calls

\* an atomic cloned at AnySpeed: three blanket impls, then the NearInstant
\* impl, which builds a new atomic with the loaded value
C3_Witness ==
    /\ JustCloned
    /\ sty = Leaf("AtomicU8")
    /\ req = [tr |-> IndependentClone, tier |-> "AnySpeed"]
    /\ Len(calls) = 4
    /\ calls[4].rule = "independent_atomic"
    /\ c = s

\* the entries of calls for the element operation on the fields of s: the
\* calls one level down made at the requested tier
FieldCalls == SelectSeq(calls, LAMBDA e : e.depth = 1 /\ e.tier = req.tier)

\* the type of field i of s: the error type for Err, the success type for Ok
FieldType(i) ==
    CASE s.tag = "Tuple" -> sty.args[i]
      [] s.tag = "Err" -> sty.args[2]
      [] OTHER -> sty.args[1]

\* C9: the clone of a tuple, Option or Result has the variant and arity of
\* the source; the element operation of the requested trait and tier is
\* entered once per field, in order, on the field's type (none for None,
\* the error type only for Err, the success type only for Ok), every call
\* below the outer one is on the type of a present field or deeper, and each
\* field of the result shows what the element operation applied to the
\* source field returns.
C9_PassThrough ==
    (JustCloned /\ sty.head \in {"Tuple", "Option", "Result"})
        => /\ c.tag = s.tag
           /\ Len(c.kids) = Len(s.kids)
           /\ Len(FieldCalls) = Len(s.kids)
           /\ calls[1] = Call(sty, req.tr, req.tier, calls[1].rule, 0)
           /\ \A j \in 2..Len(calls) :
                /\ calls[j].depth >= 1
                /\ calls[j].depth = 1 =>
                     calls[j].ty \in {FieldType(i) : i \in DOMAIN s.kids}
           /\ \A i \in DOMAIN s.kids :
                \A one \in {Exec(req.tr, req.tier, FieldType(i), s.kids[i], Fresh(heap0), 1)} :
                    /\ FieldCalls[i].ty = FieldType(i)
                    /\ FieldCalls[i].tr = req.tr
                    /\ one.out = "ok"
                    /\ Observe(c.kids[i], heap) = Observe(one.val, one.heap)
           /\ s.tag = "None" => Len(calls) = 1

\* Err(()) of Result<u8, ()> cloned under IndependentClone at ConstantTime:
\* the calls one level down are the blanket impl of () and the NearInstant
\* impl it delegates to, none on u8
C9_Witness ==
    /\ JustCloned
    /\ sty = Mk("Result", <<Leaf("u8"), Leaf("unit")>>)
    /\ s.tag = "Err"
    /\ req = [tr |-> IndependentClone, tier |-> "ConstantTime"]
    /\ c = s
    /\ Len(calls) = 3
    /\ calls[2].ty = Leaf("unit") /\ calls[2].tier = "ConstantTime"
    /\ calls[3].ty = Leaf("unit") /\ calls[3].tier = "NearInstant"

\* C10: after c = independent_clone(s), whatever is done to s leaves what c
\* shows unchanged and whatever is done to c leaves what s shows unchanged;
\* the clone of an Rc points to a backing allocated by the call, not to the
\* source's, and the source's strong count is what it was before the call.
C10_Isolation ==
    (outcome = "ok" /\ req.tr = IndependentClone)
        => /\ s # NoValue => Observe(s, heap) = obs.s
           /\ c # NoValue => Observe(c, heap) = obs.c
           /\ (ops = 0 /\ sty.head = "Rc") =>
                /\ c.tag = "Rc"
                /\ c.n > Len(heap0)
                /\ c.n # s.n
                /\ heap[c.n].strong = 1
                /\ heap[s.n].strong = heap0[s.n].strong

\* an Rc<AtomicU8> cloned independently and then written through one of the
\* handles: the two now show different values
C10_Witness ==
    /\ outcome = "ok"
    /\ req.tr = IndependentClone
    /\ sty = Mk("Rc", <<Leaf("AtomicU8")>>)
    /\ ops = 1
    /\ s # NoValue /\ c # NoValue
    /\ s.n # c.n
    /\ Observe(s, heap).kids # Observe(c, heap).kids


\* the reference-counted handles of the crate: Rc, Arc, their pinned forms
\* and their Weak forms
RefCountedHeads == {"Rc", "Arc", "PinRc", "PinArc", "RcWeak", "ArcWeak"}

\* C11: after m = mirrored_clone(s) on an Rc or a Weak, every
\* reference-counted handle has its MirroredClone impl at every tier from the
\* refcounted macros, m is a handle of the same backing as s, and after any writes
\* through s or m both show the same value, as does any further mirrored
\* clone taken from m at any tier.
C11_MirroredCoupling ==
    (/\ outcome = "ok"
     /\ req.tr = MirroredClone
     /\ sty.head \in {"Rc", "RcWeak"}
     /\ s # NoValue
     /\ c # NoValue)
        => /\ \A head \in RefCountedHeads, tier \in Tiers :
                ImplFor(Mk(head, <<Leaf("T")>>), MirroredClone, tier)
                    \in {"refcounted", "pinned_refcounted"}
           /\ c.tag = s.tag
           /\ c.n = s.n
           /\ Observe(c, heap) = Observe(s, heap)
           /\ \A tier \in Tiers :
                \A r \in {Exec(MirroredClone, tier, sty, c, Fresh(heap), 0)} :
                    /\ r.out = "ok"
                    /\ r.val.n = s.n
                    /\ Observe(r.val, r.heap) = Observe(s, r.heap)

\* an Rc<Cell<u8>> cloned at LogTime and then written through one of the two
\* handles: the backing holds another value than before the call
C11_Witness ==
    /\ outcome = "ok"
    /\ req = [tr |-> MirroredClone, tier |-> "LogTime"]
    /\ sty = Mk("Rc", <<Mk("Cell", <<Leaf("u8")>>)>>)
    /\ ops = 1
    /\ s # NoValue
    /\ c # NoValue
    /\ heap[s.n].strong = 2
    /\ heap[s.n].val # heap0[s.n].val

\* C12: independent_clone of a Weak whose referent is gone, or that was
\* created empty, returns normally at every tier it is implemented for; the
\* only calls entered are on the Weak type itself (none on the referent's
\* type), nothing is allocated, and the returned Weak cannot be upgraded.
C12_WeakDegradation ==
    (/\ outcome # "none"
     /\ ops = 0
     /\ req.tr = IndependentClone
     /\ sty.head = "RcWeak"
     /\ ~Alive(heap0, s.n))
        => /\ outcome = "ok"
           /\ \A i \in DOMAIN calls : calls[i].ty = sty /\ calls[i].depth = 0
           /\ c.tag = "Weak"
           /\ ~Alive(heap, c.n)
           /\ heap = heap0

\* a Weak<u8> whose only Rc was dropped before the call, cloned at AnySpeed
C12_Witness ==
    /\ outcome = "ok"
    /\ ops = 0
    /\ req = [tr |-> IndependentClone, tier |-> "AnySpeed"]
    /\ sty = Mk("RcWeak", <<Leaf("u8")>>)
    /\ s.n > 0
    /\ heap0[s.n].strong = 0
    /\ keep = NoValue
    /\ c = V("Weak", 0, <<>>)

\* C18: independent_clone of a Weak whose referent is alive returns a Weak
\* that can be upgraded at once and then shows a clone of the referent.
C18_LiveWeakUpgradable ==
    (/\ outcome = "ok"
     /\ ops = 0
     /\ req.tr = IndependentClone
     /\ sty.head = "RcWeak"
     /\ Alive(heap0, s.n))
        => /\ Alive(heap, c.n)
           /\ Observe(c, heap).kids = Observe(s, heap).kids

LockHeads == {"Mutex", "RwLock"}

\* an independent_clone call on s from entry to its end
CallStep == outcome = "none" /\ outcome' # "none" /\ req'.tr = IndependentClone

\* the independent clone of the content of the cell or lock s, on its own
ContentClone == Exec(IndependentClone, req'.tier, sty.args[1], s.kids[1], Fresh(heap), 1)

\* C13: independent_clone of a Mutex or RwLock that is neither held nor
\* poisoned ends as the independent clone of the guarded value ends; when
\* that returns, the result is a new lock, not held and not poisoned,
\* around that clone, nothing else is allocated, and the source is as it
\* was before the call: not held, not poisoned, its value unchanged.
C13_LockClone ==
    [][(CallStep /\ sty.head \in LockHeads /\ s.n = 0 /\ ~s.poison)
        => \A one \in {ContentClone} :
               /\ outcome' = one.out
               /\ one.out = "ok" =>
                    /\ c' = V("Lock", 0, <<one.val>>)
                    /\ ~c'.poison
                    /\ heap' = one.heap
                    /\ s' = s]_vars

\* a Mutex<Vec<u8>> cloned: the new lock guards a buffer allocated by the
\* call, the source is free and guards its own buffer
C13_Witness ==
    /\ outcome = "ok"
    /\ ops = 0
    /\ req.tr = IndependentClone
    /\ sty = Mk("Mutex", <<Mk("Vec", <<Leaf("u8")>>)>>)
    /\ s.n = 0 /\ ~s.poison
    /\ c.tag = "Lock" /\ c.n = 0 /\ ~c.poison
    /\ s.kids[1].n <= Len(heap0)
    /\ c.kids[1].n > Len(heap0)
    /\ heap[c.kids[1].n].val = heap[s.kids[1].n].val

\* C14 as stated: with the lock held by the caller in any mode, a Mutex it
\* locked or an RwLock it holds for reading or for writing, the call never
\* returns a value.
C14_HeldNeverReturns ==
    [][(CallStep /\ sty.head \in LockHeads /\ s.n # 0)
        => outcome' \in {"blocked", "panic"} /\ c' = NoValue]_vars

\* C14: with the lock held exclusively by the caller (a Mutex it locked, an
\* RwLock it holds for writing) the call never returns a value: it blocks
\* for good or panics, and the caller's guard stays as it was.  With an
\* RwLock the caller holds for reading the call may also return: the result
\* is then a new free lock around the clone of the content, and the
\* caller's read guard stays as it was.  The source changes only where a
\* panic inside the content's clone poisons a mutex of the content.
C14_SelfDeadlock ==
    [][(CallStep /\ sty.head \in LockHeads /\ s.n # 0)
        => /\ s'.n = s.n /\ s'.poison = s.poison
           /\ (HeldExclusive(s) \/ outcome' # "panic") => s' = s
           /\ HeldExclusive(s) => outcome' \in {"blocked", "panic"} /\ c' = NoValue
           /\ HeldShared(s) =>
                /\ sty.head = "RwLock"
                /\ outcome' \in {"ok", "blocked", "panic"}
                /\ outcome' = "ok" => c' = V("Lock", 0, <<ContentClone.val>>)
                /\ outcome' # "ok" => c' = NoValue]_vars

\* a Mutex<u8> locked by the caller and then cloned at LogTime: the call
\* blocks, no value is returned, the lock is still held
C14_Witness ==
    /\ outcome = "blocked"
    /\ req = [tr |-> IndependentClone, tier |-> "LogTime"]
    /\ sty = Mk("Mutex", <<Leaf("u8")>>)
    /\ HeldExclusive(s)
    /\ c = NoValue

C16_PoisonFatal ==
    [][(CallStep /\ sty.head \in LockHeads /\ s.poison)
        => /\ outcome' = "panic"
           /\ c' = NoValue
           /\ \A i \in DOMAIN calls' : calls'[i].ty = sty
           /\ heap' = heap
           /\ s' = s
           /\ s'.poison]_vars

\* an RwLock<u8> poisoned by a panicking writer, cloned at AnySpeed
C16_Witness ==
    /\ outcome = "panic"
    /\ req = [tr |-> IndependentClone, tier |-> "AnySpeed"]
    /\ sty = Mk("RwLock", <<Leaf("u8")>>)
    /\ s.poison
    /\ s.n = 0
    /\ c = NoValue

\* C17: a call at tier NearInstant, of any of the three traits on any type
\* implementing it, ends without having allocated, without a call on a lock
\* or a RefCell, and returns.
C17_NearInstantNeverBlocks ==
    (outcome # "none" /\ ops = 0 /\ req.tier = "NearInstant")
        => /\ outcome = "ok"
           /\ Len(heap) = Len(heap0)
           /\ \A i \in DOMAIN calls :
                /\ calls[i].tier = "NearInstant"
                /\ calls[i].ty.head \notin LockHeads \cup {"RefCell"}

\* both fields of the pair carry the same update
Whole(v) == v.kids[1] = v.kids[2]

====
